---------------------------- MODULE Spec2Model ----------------------------
(* A model of src/libstd/sys/common/net.rs: the socket-address decoding   *)
(* (sockaddr_to_addr, sockname), the socket option accessors, the         *)
(* LookupHost iterator, and the TcpStream / TcpListener / UdpSocket       *)
(* wrappers over the OS socket handle.                                    *)
(*                                                                        *)
(* The operating system is the environment: every syscall answers with a  *)
(* script of return codes (zero or more interrupted attempts followed by  *)
(* a final answer) and, where it fills an address in, with a raw storage  *)
(* and a length drawn from bounded sets.                                  *)
EXTENDS Integers, Sequences, FiniteSets, Bags, TLC

VARIABLES
    windows,    \* cfg!(windows): the build target, fixed for a behaviour
    open,       \* the OS handles (file descriptors) that are open
    wrappers,   \* bag of live wrapper values [kind, fd]
    last,       \* the last call: its name, inputs, syscalls issued, result
    lists,      \* addrinfo lists handed out by getaddrinfo, by list id
    hosts,      \* LookupHost values, by list id
    freed       \* the log of freeaddrinfo calls: the pointers passed

vars == <<windows, open, wrappers, last, lists, hosts, freed>>

----------------------------------------------------------------------------
(* Bounds of the model.                                                   *)

\* wrapper values alive at the same time
MaxWrappers == 2
\* interrupted attempts the OS answers before a syscall's final answer
MaxIntr == 1
\* nodes of one addrinfo list
MaxNodes == 2
\* lookup_host calls in one behaviour
MaxLookups == 1

----------------------------------------------------------------------------
(* Program constants.                                                     *)

AF_INET == 2
AF_INET6 == 10
\* mem::size_of::<libc::sockaddr_in>()
SizeofSockaddrIn == 16
\* mem::size_of::<libc::sockaddr_in6>()
SizeofSockaddrIn6 == 28
\* mem::size_of_val(&storage), storage: libc::sockaddr_storage
SizeofSockaddrStorage == 128
\* the backlog passed to listen
ListenBacklog == 128
\* mem::size_of::<c_int>(), the payload of SO_REUSEADDR
SizeofCInt == 4
\* the payload value that enables SO_REUSEADDR
ReuseAddrOn == 1

----------------------------------------------------------------------------
(* io::Result, with the panic of a failed assertion as a third outcome.   *)

NoVal == [variant |-> "None"]
Ok(v) == [tag |-> "Ok", kind |-> "None", val |-> v]
Err(k) == [tag |-> "Err", kind |-> k, val |-> NoVal]
Panic == [tag |-> "Panic", kind |-> "assert", val |-> NoVal]
Unit == [variant |-> "Unit"]

----------------------------------------------------------------------------
(* Socket addresses: the typed value and the raw sockaddr bytes.          *)

\* the byte at position i of a zero-initialised buffer that holds data
ByteAt(data, i) == IF i \in 1..Len(data) THEN data[i] ELSE 0

\* bytes from..to of the buffer
Bytes(data, from, to) == [i \in 1..(to - from + 1) |-> ByteAt(data, from + i - 1)]

\* a 16 bit value in network byte order
BE16(n) == <<n \div 256, n % 256>>
FromBE16(b) == b[1] * 256 + b[2]

\* a 32 bit value in network byte order
BE32(n) == <<n \div 16777216, (n \div 65536) % 256, (n \div 256) % 256, n % 256>>
FromBE32(b) == b[1] * 16777216 + b[2] * 65536 + b[3] * 256 + b[4]

SampleV4Ips == {<<127, 0, 0, 1>>, <<10, 1, 2, 3>>, <<100, 64, 255, 254>>}
SampleV6Ips == {<<0, 0, 0, 0, 0, 0, 0, 0, 0, 0, 0, 0, 0, 0, 0, 1>>,
                <<32, 1, 13, 184, 0, 0, 0, 0, 0, 0, 0, 0, 0, 0, 255, 2>>}
SamplePorts == {0, 80, 256, 8080, 65535}
SampleFlows == {0, 66051}
SampleScopes == {0, 3}

SocketAddrV4(ip, port) == [variant |-> "V4", ip |-> ip, port |-> port]
SocketAddrV6(ip, port, flowinfo, scope_id) ==
    [variant |-> "V6", ip |-> ip, port |-> port,
     flowinfo |-> flowinfo, scope_id |-> scope_id]

SocketAddrs ==
    {SocketAddrV4(ip, p) : ip \in SampleV4Ips, p \in SamplePorts}
    \cup {SocketAddrV6(ip, p, fl, sc) :
            ip \in SampleV6Ips, p \in SamplePorts,
            fl \in SampleFlows, sc \in SampleScopes}

\* sockaddr_in after the family: sin_port (2), sin_addr (4), sin_zero (8)
\* sockaddr_in6 after the family: sin6_port (2), sin6_flowinfo (4),
\* sin6_addr (16), sin6_scope_id (4)
Storage(family, data) == [ss_family |-> family, data |-> data]

\* SocketAddr::into_inner: the raw structure and its length
into_inner(addr) ==
    IF addr.variant = "V4"
    THEN [storage |-> Storage(AF_INET, BE16(addr.port) \o addr.ip),
          len |-> SizeofSockaddrIn]
    ELSE [storage |-> Storage(AF_INET6, BE16(addr.port) \o BE32(addr.flowinfo)
                                          \o addr.ip \o BE32(addr.scope_id)),
          len |-> SizeofSockaddrIn6]

\* FromInner<sockaddr_in> for SocketAddrV4
from_inner_v4(storage) ==
    SocketAddrV4(Bytes(storage.data, 3, 6), FromBE16(Bytes(storage.data, 1, 2)))

\* FromInner<sockaddr_in6> for SocketAddrV6
from_inner_v6(storage) ==
    SocketAddrV6(Bytes(storage.data, 7, 22), FromBE16(Bytes(storage.data, 1, 2)),
                 FromBE32(Bytes(storage.data, 3, 6)),
                 FromBE32(Bytes(storage.data, 23, 26)))

\* sockaddr_to_addr with the two families' arms exchanged
sockaddr_to_addr_swapped(storage, len) ==
    IF storage.ss_family = AF_INET6
    THEN IF len >= SizeofSockaddrIn THEN Ok(from_inner_v4(storage)) ELSE Panic
    ELSE IF storage.ss_family = AF_INET
    THEN IF len >= SizeofSockaddrIn6 THEN Ok(from_inner_v6(storage)) ELSE Panic
    ELSE Err("InvalidInput")

\* sockaddr_to_addr without the length assertions
sockaddr_to_addr_unchecked(storage, len) ==
    IF storage.ss_family = AF_INET THEN Ok(from_inner_v4(storage))
    ELSE IF storage.ss_family = AF_INET6 THEN Ok(from_inner_v6(storage))
    ELSE Err("InvalidInput")

\* sockaddr_to_addr whose fall-through arm decodes as IPv4
sockaddr_to_addr_lenient(storage, len) ==
    IF storage.ss_family = AF_INET6
    THEN IF len >= SizeofSockaddrIn6 THEN Ok(from_inner_v6(storage)) ELSE Panic
    ELSE IF len >= SizeofSockaddrIn THEN Ok(from_inner_v4(storage)) ELSE Panic

sockaddr_to_addr(storage, len) ==
    IF storage.ss_family = AF_INET
    THEN IF len >= SizeofSockaddrIn THEN Ok(from_inner_v4(storage)) ELSE Panic
    ELSE IF storage.ss_family = AF_INET6
    THEN IF len >= SizeofSockaddrIn6 THEN Ok(from_inner_v6(storage)) ELSE Panic
    ELSE Err("InvalidInput")


----------------------------------------------------------------------------
(* The OS's answers and the conversion of return codes.                   *)

\* what the attempts of a retried syscall return, one after the other
Script(k, final) == [i \in 1..(k + 1) |-> IF i <= k THEN "EINTR" ELSE final]
Scripts == {Script(k, final) : k \in 0..MaxIntr, final \in {"OK", "ERR"}}

\* one syscall as it was issued: its name, its arguments, what it returned
Sys(call, arg, ret) == [call |-> call, arg |-> arg, ret |-> ret]

\* io::Error::last_os_error() for a failed attempt
last_os_error(ret) == IF ret = "EINTR" THEN Err("Interrupted") ELSE Err("Other")

\* what the first attempt of a syscall may return
Answers == {"OK", "ERR", "EINTR"}

\* cvt: the syscall is issued once and its return code converted
cvt(call, arg, ret) ==
    [res |-> IF ret = "OK" THEN Ok(Unit) ELSE last_os_error(ret),
     trace |-> <<Sys(call, arg, ret)>>]

\* cvt_r: the syscall is issued again while it fails with Interrupted
cvt_r(call, arg, script) ==
    LET n == CHOOSE i \in 1..Len(script) :
                 /\ script[i] # "EINTR"
                 /\ \A j \in 1..(i - 1) : script[j] = "EINTR"
    IN [res |-> IF script[n] = "OK" THEN Ok(Unit) ELSE last_os_error(script[n]),
        trace |-> [i \in 1..n |-> Sys(call, arg, script[i])]]

----------------------------------------------------------------------------
(* The socket option accessors.                                           *)

SOL_SOCKET == 1
SO_REUSEADDR == 2
SO_RCVTIMEO == 20
SO_SNDTIMEO == 21
\* mem::size_of::<libc::timeval>(), the payload of the timeout options
SizeofTimeval == 16

setsockopt(fd, opt, val, payload, size, ret) ==
    cvt("setsockopt", <<fd, opt, val, payload, size>>, ret)

\* oslen: the option length the OS wrote back
getsockopt(fd, opt, val, size, ret, oslen) ==
    LET c == cvt("getsockopt", <<fd, opt, val, size>>, ret)
    IN IF c.res.tag # "Ok" THEN c
       ELSE IF oslen # size THEN [res |-> Panic, trace |-> c.trace]
       ELSE [res |-> Ok([variant |-> "Slot", len |-> oslen]), trace |-> c.trace]

----------------------------------------------------------------------------
(* Raw addresses the OS may write back.                                   *)

AF_UNSPEC == 0
AF_UNIX == 1

RawLens == {0, SizeofSockaddrIn - 1, SizeofSockaddrIn, SizeofSockaddrIn6 - 1,
            SizeofSockaddrIn6, SizeofSockaddrStorage}

PeerV4 == SocketAddrV4(<<10, 1, 2, 3>>, 8080)
PeerV6 == SocketAddrV6(<<32, 1, 13, 184, 0, 0, 0, 0, 0, 0, 0, 0, 0, 0, 255, 2>>,
                       256, 66051, 3)
PeerAddrs == {PeerV4, PeerV6}

RawStorages ==
    {Storage(AF_UNSPEC, <<>>), Storage(AF_UNIX, <<47, 116, 109, 112>>)}
    \cup {into_inner(a).storage : a \in PeerAddrs}

Raw(st, n) == [given |-> TRUE, storage |-> st, len |-> n]

\* what the OS writes back on a socket of this model: a peer of either
\* family with its structure's length, with a shorter one, with the whole
\* buffer's, and an address of a family that is neither
OsRawAddrs ==
    {Raw(into_inner(PeerV4).storage, n) :
        n \in {SizeofSockaddrIn - 1, SizeofSockaddrIn, SizeofSockaddrStorage}}
    \cup {Raw(into_inner(PeerV6).storage, n) :
        n \in {SizeofSockaddrIn6 - 1, SizeofSockaddrIn6}}
    \cup {Raw(Storage(AF_UNIX, <<47, 116, 109, 112>>), n) :
        n \in {0, SizeofSockaddrStorage}}
    \cup {Raw(Storage(AF_UNSPEC, <<>>), SizeofSockaddrIn)}

RawAddrs == {Raw(st, n) : st \in RawStorages, n \in RawLens}
NoRaw == [given |-> FALSE, storage |-> Storage(AF_UNSPEC, <<>>), len |-> 0]

\* sockname: the syscall f fills the storage in, then the address is decoded
sockname(call, fd, ret, raw) ==
    LET c == cvt(call, <<fd, SizeofSockaddrStorage>>, ret)
    IN IF c.res.tag # "Ok" THEN c
       ELSE [res |-> sockaddr_to_addr(raw.storage, raw.len), trace |-> c.trace]

----------------------------------------------------------------------------
(* The socket handle (sys::net::Socket) and the wrappers over it.         *)

SOCK_STREAM == 1
SOCK_DGRAM == 2

WrapperKinds == {"TcpStream", "TcpListener", "UdpSocket"}
Wrapper(kind, fd) == [kind |-> kind, fd |-> fd]
One(w) == SetToBag({w})
Live == BagToSet(wrappers)
Room == BagCardinality(wrappers) < MaxWrappers

\* the OS hands out the lowest descriptor that is not open
NewFd == CHOOSE n \in 1..(Cardinality(open) + 1) :
             /\ n \notin open
             /\ \A m \in 1..(n - 1) : m \in open

\* Drop for Socket: the handle is closed
Close(fd) == Sys("close", <<fd>>, "OK")

\* the record of a call: the handle it was made on, the handle it created,
\* the syscalls issued in order, the raw address the OS wrote, the result
Call(op, fd, newfd, trace, raw, res) ==
    [op |-> op, fd |-> fd, newfd |-> newfd, arg |-> NoVal, trace |-> trace,
     raw |-> raw, res |-> res]

\* the record of a call that is made on no socket: its argument instead
CallArg(op, arg, trace, raw, res) ==
    [op |-> op, fd |-> 0, newfd |-> 0, arg |-> arg, trace |-> trace,
     raw |-> raw, res |-> res]

Step(o, w, l) ==
    /\ open' = o
    /\ wrappers' = w
    /\ last' = l
    /\ UNCHANGED <<windows, lists, hosts, freed>>

\* the connect syscall issued once, its interruption returned to the caller
connect_call_once(fd, len, script) == cvt("connect", <<fd, len>>, script[1])

\* cvt_r(|| libc::connect(sock, addrp, len))
connect_call(fd, len, script) == cvt_r("connect", <<fd, len>>, script)

\* cvt(libc::send(sock, buf, len, 0))
send_call(fd, ret) == cvt("send", <<fd>>, ret)

TcpStreamConnect ==
    /\ Room
    /\ \E addr \in PeerAddrs, rn \in {"OK", "ERR"} :
         LET fd == NewFd
             raw == into_inner(addr)
             t0 == <<Sys("socket", <<raw.storage.ss_family, SOCK_STREAM>>, rn)>>
         IN IF rn # "OK"
            THEN Step(open, wrappers,
                      Call("TcpStream::connect", 0, 0, t0, NoRaw, Err("Other")))
            ELSE \E s \in Scripts :
                   LET c == connect_call(fd, raw.len, s)
                   IN IF c.res.tag = "Ok"
                      THEN Step(open \cup {fd},
                                wrappers (+) One(Wrapper("TcpStream", fd)),
                                Call("TcpStream::connect", 0, fd,
                                     t0 \o c.trace, NoRaw, Ok(Unit)))
                      ELSE Step((open \cup {fd}) \ {fd}, wrappers,
                                Call("TcpStream::connect", 0, fd,
                                     t0 \o c.trace \o <<Close(fd)>>, NoRaw, c.res))

\* TcpListener::bind that binds before it sets the address-reuse option
TcpListenerBind_late_reuse ==
    /\ Room
    /\ \E addr \in PeerAddrs, rn \in {"OK", "ERR"} :
         LET fd == NewFd
             raw == into_inner(addr)
             t0 == <<Sys("socket", <<raw.storage.ss_family, SOCK_STREAM>>, rn)>>
             Fail(trace, res) ==
                 Step((open \cup {fd}) \ {fd}, wrappers,
                      Call("TcpListener::bind", 0, fd,
                           trace \o <<Close(fd)>>, NoRaw, res))
         IN IF rn # "OK"
            THEN Step(open, wrappers,
                      Call("TcpListener::bind", 0, 0, t0, NoRaw, Err("Other")))
            ELSE \E s2 \in Answers :
              LET c2 == cvt("bind", <<fd, raw.len>>, s2)
              IN IF c2.res.tag # "Ok" THEN Fail(t0 \o c2.trace, c2.res)
                 ELSE \E s1 \in Answers :
                   LET c1 == IF windows
                             THEN [res |-> Ok(Unit), trace |-> <<>>]
                             ELSE setsockopt(fd, SOL_SOCKET, SO_REUSEADDR,
                                             ReuseAddrOn, SizeofCInt, s1)
                       t1 == t0 \o c2.trace \o c1.trace
                   IN IF c1.res.tag # "Ok" THEN Fail(t1, c1.res)
                      ELSE \E s3 \in Answers :
                        LET c3 == cvt("listen", <<fd, ListenBacklog>>, s3)
                        IN IF c3.res.tag # "Ok"
                           THEN Fail(t1 \o c3.trace, c3.res)
                           ELSE Step(open \cup {fd},
                                     wrappers (+) One(Wrapper("TcpListener", fd)),
                                     Call("TcpListener::bind", 0, fd,
                                          t1 \o c3.trace, NoRaw, Ok(Unit)))

TcpListenerBind ==
    /\ Room
    /\ \E addr \in PeerAddrs, rn \in {"OK", "ERR"} :
         LET fd == NewFd
             raw == into_inner(addr)
             t0 == <<Sys("socket", <<raw.storage.ss_family, SOCK_STREAM>>, rn)>>
             Fail(trace, res) ==
                 Step((open \cup {fd}) \ {fd}, wrappers,
                      Call("TcpListener::bind", 0, fd,
                           trace \o <<Close(fd)>>, NoRaw, res))
         IN IF rn # "OK"
            THEN Step(open, wrappers,
                      Call("TcpListener::bind", 0, 0, t0, NoRaw, Err("Other")))
            ELSE \E s1 \in Answers :
              LET c1 == IF windows
                        THEN [res |-> Ok(Unit), trace |-> <<>>]
                        ELSE setsockopt(fd, SOL_SOCKET, SO_REUSEADDR,
                                        ReuseAddrOn, SizeofCInt, s1)
                  t1 == t0 \o c1.trace
              IN IF c1.res.tag # "Ok" THEN Fail(t1, c1.res)
                 ELSE \E s2 \in Answers :
                   LET c2 == cvt("bind", <<fd, raw.len>>, s2)
                       t2 == t1 \o c2.trace
                   IN IF c2.res.tag # "Ok" THEN Fail(t2, c2.res)
                      ELSE \E s3 \in Answers :
                        LET c3 == cvt("listen", <<fd, ListenBacklog>>, s3)
                        IN IF c3.res.tag # "Ok"
                           THEN Fail(t2 \o c3.trace, c3.res)
                           ELSE Step(open \cup {fd},
                                     wrappers (+) One(Wrapper("TcpListener", fd)),
                                     Call("TcpListener::bind", 0, fd,
                                          t2 \o c3.trace, NoRaw, Ok(Unit)))

UdpSocketBind ==
    /\ Room
    /\ \E addr \in PeerAddrs, rn \in {"OK", "ERR"} :
         LET fd == NewFd
             raw == into_inner(addr)
             t0 == <<Sys("socket", <<raw.storage.ss_family, SOCK_DGRAM>>, rn)>>
         IN IF rn # "OK"
            THEN Step(open, wrappers,
                      Call("UdpSocket::bind", 0, 0, t0, NoRaw, Err("Other")))
            ELSE \E s \in Answers :
                   LET c == cvt("bind", <<fd, raw.len>>, s)
                   IN IF c.res.tag = "Ok"
                      THEN Step(open \cup {fd},
                                wrappers (+) One(Wrapper("UdpSocket", fd)),
                                Call("UdpSocket::bind", 0, fd,
                                     t0 \o c.trace, NoRaw, Ok(Unit)))
                      ELSE Step((open \cup {fd}) \ {fd}, wrappers,
                                Call("UdpSocket::bind", 0, fd,
                                     t0 \o c.trace \o <<Close(fd)>>, NoRaw, c.res))

\* TcpListener::accept that forgets the accepted socket when the peer
\* address does not decode
TcpListenerAccept_leak ==
    /\ Room
    /\ \E l \in Live, r \in {"OK", "ERR"} :
         /\ l.kind = "TcpListener"
         /\ LET t0 == <<Sys("accept", <<l.fd, SizeofSockaddrStorage>>, r)>>
                fd == NewFd
            IN IF r # "OK"
               THEN Step(open, wrappers,
                         Call("TcpListener::accept", l.fd, 0, t0, NoRaw,
                              Err("Other")))
               ELSE \E raw \in OsRawAddrs :
                      LET d == sockaddr_to_addr(raw.storage, raw.len)
                      IN IF d.tag = "Ok"
                         THEN Step(open \cup {fd},
                                   wrappers (+) One(Wrapper("TcpStream", fd)),
                                   Call("TcpListener::accept", l.fd, fd, t0, raw, d))
                         ELSE Step(open \cup {fd}, wrappers,
                                   Call("TcpListener::accept", l.fd, fd, t0, raw, d))

\* the accepted socket is a local: an early return and an unwinding panic
\* both drop it
TcpListenerAccept ==
    /\ Room
    /\ \E l \in Live, r \in {"OK", "ERR"} :
         /\ l.kind = "TcpListener"
         /\ LET t0 == <<Sys("accept", <<l.fd, SizeofSockaddrStorage>>, r)>>
                fd == NewFd
            IN IF r # "OK"
               THEN Step(open, wrappers,
                         Call("TcpListener::accept", l.fd, 0, t0, NoRaw,
                              Err("Other")))
               ELSE \E raw \in OsRawAddrs :
                      LET d == sockaddr_to_addr(raw.storage, raw.len)
                      IN IF d.tag = "Ok"
                         THEN Step(open \cup {fd},
                                   wrappers (+) One(Wrapper("TcpStream", fd)),
                                   Call("TcpListener::accept", l.fd, fd, t0, raw, d))
                         ELSE Step((open \cup {fd}) \ {fd}, wrappers,
                                   Call("TcpListener::accept", l.fd, fd,
                                        t0 \o <<Close(fd)>>, raw, d))

\* Socket::duplicate on w's socket, mapped into a wrapper of w's kind: a new
\* handle on the same OS socket
duplicate(w, r, op) ==
    LET t0 == <<Sys("dup", <<w.fd>>, r)>>
        fd == NewFd
    IN IF r # "OK"
       THEN Step(open, wrappers, Call(op, w.fd, 0, t0, NoRaw, Err("Other")))
       ELSE Step(open \cup {fd}, wrappers (+) One(Wrapper(w.kind, fd)),
                 Call(op, w.fd, fd, t0, NoRaw, Ok(Unit)))

\* a duplicate that wraps the original's handle a second time
TcpStreamDuplicate_shared ==
    /\ Room
    /\ \E w \in Live :
         /\ w.kind = "TcpStream"
         /\ Step(open, wrappers (+) One(Wrapper("TcpStream", w.fd)),
                 Call("TcpStream::duplicate", w.fd, w.fd, <<>>, NoRaw, Ok(Unit)))

TcpStreamDuplicate ==
    /\ Room
    /\ \E w \in Live, r \in {"OK", "ERR"} :
         /\ w.kind = "TcpStream"
         /\ duplicate(w, r, "TcpStream::duplicate")

TcpListenerDuplicate ==
    /\ Room
    /\ \E w \in Live, r \in {"OK", "ERR"} :
         /\ w.kind = "TcpListener"
         /\ duplicate(w, r, "TcpListener::duplicate")

UdpSocketDuplicate ==
    /\ Room
    /\ \E w \in Live, r \in {"OK", "ERR"} :
         /\ w.kind = "UdpSocket"
         /\ duplicate(w, r, "UdpSocket::duplicate")

\* the handle of w moves into a value of another kind; w is consumed
Moved(w, kind, op) ==
    Step(open, (wrappers (-) One(w)) (+) One(Wrapper(kind, w.fd)),
         Call(op, w.fd, 0, <<>>, NoRaw, Ok(Unit)))

\* into_socket(self) -> Socket
TcpStreamIntoSocket ==
    \E w \in Live :
      /\ w.kind = "TcpStream"
      /\ Moved(w, "Socket", "TcpStream::into_socket")

TcpListenerIntoSocket ==
    \E w \in Live :
      /\ w.kind = "TcpListener"
      /\ Moved(w, "Socket", "TcpListener::into_socket")

UdpSocketIntoSocket ==
    \E w \in Live :
      /\ w.kind = "UdpSocket"
      /\ Moved(w, "Socket", "UdpSocket::into_socket")

\* from_inner(socket: Socket)
TcpStreamFromInner ==
    \E w \in Live :
      /\ w.kind = "Socket"
      /\ Moved(w, "TcpStream", "TcpStream::from_inner")

TcpListenerFromInner ==
    \E w \in Live :
      /\ w.kind = "Socket"
      /\ Moved(w, "TcpListener", "TcpListener::from_inner")

UdpSocketFromInner ==
    \E w \in Live :
      /\ w.kind = "Socket"
      /\ Moved(w, "UdpSocket", "UdpSocket::from_inner")

\* a wrapper (or a bare Socket) goes out of scope
Drop ==
    \E w \in Live :
      Step(open \ {w.fd}, wrappers (-) One(w),
           Call("drop", w.fd, 0, <<Close(w.fd)>>, NoRaw, Ok(Unit)))

----------------------------------------------------------------------------
(* Calls on a live wrapper that leave the handles as they are.            *)

Quiet(l) == Step(open, wrappers, l)

\* Socket::read
TcpStreamRead ==
    \E w \in Live, r \in {"OK", "ERR"} :
      /\ w.kind = "TcpStream"
      /\ Quiet(Call("TcpStream::read", w.fd, 0, <<Sys("recv", <<w.fd>>, r)>>,
                    NoRaw, IF r = "OK" THEN Ok(Unit) ELSE Err("Other")))

TcpStreamWrite ==
    \E w \in Live, s \in Answers :
      /\ w.kind = "TcpStream"
      /\ LET c == send_call(w.fd, s)
         IN Quiet(Call("TcpStream::write", w.fd, 0, c.trace, NoRaw, c.res))

\* Shutdown::{Read, Write, Both} as SHUT_RD, SHUT_WR, SHUT_RDWR
ShutdownHow(how) ==
    CASE how = "Read" -> 0
      [] how = "Write" -> 1
      [] how = "Both" -> 2

TcpStreamShutdown ==
    \E w \in Live, how \in {"Read", "Write", "Both"}, s \in Answers :
      /\ w.kind = "TcpStream"
      /\ LET c == cvt("shutdown", <<w.fd, ShutdownHow(how)>>, s)
         IN Quiet(Call("TcpStream::shutdown", w.fd, 0, c.trace, NoRaw, c.res))

\* sockname(f) on w's socket, the OS answering s to the syscall f
SocknameOp(w, call, op, s) ==
    IF s # "OK"
    THEN LET c == sockname(call, w.fd, s, NoRaw)
         IN Quiet(Call(op, w.fd, 0, c.trace, NoRaw, c.res))
    ELSE \E raw \in OsRawAddrs :
           LET c == sockname(call, w.fd, s, raw)
           IN Quiet(Call(op, w.fd, 0, c.trace, raw, c.res))

TcpStreamPeerAddr ==
    \E w \in Live, s \in Answers :
      /\ w.kind = "TcpStream"
      /\ SocknameOp(w, "getpeername", "TcpStream::peer_addr", s)

TcpStreamSocketAddr ==
    \E w \in Live, s \in Answers :
      /\ w.kind = "TcpStream"
      /\ SocknameOp(w, "getsockname", "TcpStream::socket_addr", s)

TcpListenerSocketAddr ==
    \E w \in Live, s \in Answers :
      /\ w.kind = "TcpListener"
      /\ SocknameOp(w, "getsockname", "TcpListener::socket_addr", s)

UdpSocketSocketAddr ==
    \E w \in Live, s \in Answers :
      /\ w.kind = "UdpSocket"
      /\ SocknameOp(w, "getsockname", "UdpSocket::socket_addr", s)

\* the byte count of the result is left out: Ok carries the sender address
UdpSocketRecvFrom ==
    \E w \in Live, s \in Answers :
      /\ w.kind = "UdpSocket"
      /\ LET c == cvt("recvfrom", <<w.fd, SizeofSockaddrStorage>>, s)
         IN IF c.res.tag # "Ok"
            THEN Quiet(Call("UdpSocket::recv_from", w.fd, 0, c.trace, NoRaw, c.res))
            ELSE \E raw \in OsRawAddrs :
                   Quiet(Call("UdpSocket::recv_from", w.fd, 0, c.trace, raw,
                              sockaddr_to_addr(raw.storage, raw.len)))

UdpSocketSendTo ==
    \E w \in Live, dst \in PeerAddrs, s \in Answers :
      /\ w.kind = "UdpSocket"
      /\ LET c == cvt("sendto", <<w.fd, into_inner(dst).len>>, s)
         IN Quiet(Call("UdpSocket::send_to", w.fd, 0, c.trace, NoRaw, c.res))

TimeoutOpts == {SO_RCVTIMEO, SO_SNDTIMEO}

\* setsockopt::<timeval> on a socket (the timeout setters end here)
SetSockOpt ==
    \E w \in Live, opt \in TimeoutOpts, s \in Answers :
      LET c == setsockopt(w.fd, SOL_SOCKET, opt, 0, SizeofTimeval, s)
      IN Quiet(Call("setsockopt", w.fd, 0, c.trace, NoRaw, c.res))

\* getsockopt::<timeval> on a socket (the timeout getters end here)
GetSockOpt ==
    \E w \in Live, opt \in TimeoutOpts, s \in Answers,
       oslen \in {SizeofCInt, SizeofTimeval} :
      LET c == getsockopt(w.fd, SOL_SOCKET, opt, SizeofTimeval, s, oslen)
      IN Quiet([Call("getsockopt", w.fd, 0, c.trace, NoRaw, c.res)
                   EXCEPT !.arg = [variant |-> "OptLen", len |-> oslen]])

----------------------------------------------------------------------------
(* The specification of the socket wrappers.                              *)

NoCall == Call("none", 0, 0, <<>>, NoRaw, Ok(Unit))

Init ==
    /\ windows \in BOOLEAN
    /\ open = {}
    /\ wrappers = EmptyBag
    /\ last = NoCall
    /\ lists = <<>>
    /\ hosts = <<>>
    /\ freed = <<>>

Next ==
    \/ TcpStreamConnect
    \/ TcpListenerBind
    \/ UdpSocketBind
    \/ TcpListenerAccept
    \/ TcpStreamDuplicate
    \/ TcpListenerDuplicate
    \/ UdpSocketDuplicate
    \/ TcpStreamIntoSocket
    \/ TcpListenerIntoSocket
    \/ UdpSocketIntoSocket
    \/ TcpStreamFromInner
    \/ TcpListenerFromInner
    \/ UdpSocketFromInner
    \/ Drop
    \/ TcpStreamRead
    \/ TcpStreamWrite
    \/ TcpStreamShutdown
    \/ TcpStreamPeerAddr
    \/ TcpStreamSocketAddr
    \/ TcpListenerSocketAddr
    \/ UdpSocketSocketAddr
    \/ UdpSocketRecvFrom
    \/ UdpSocketSendTo
    \/ SetSockOpt
    \/ GetSockOpt

Spec == Init /\ [][Next]_vars

----------------------------------------------------------------------------
(* Address decoding on its own: every raw address, and every typed        *)
(* address sent through its raw form.                                     *)

AllRawAddrs ==
    RawAddrs \cup {Raw(into_inner(a).storage, n) : a \in SocketAddrs, n \in RawLens}

\* sockaddr_to_addr on what the OS wrote
SockaddrToAddr ==
    /\ \E raw \in AllRawAddrs :
         last' = CallArg("sockaddr_to_addr", NoVal, <<>>, raw,
                         sockaddr_to_addr(raw.storage, raw.len))
    /\ UNCHANGED <<windows, open, wrappers, lists, hosts, freed>>

\* socket_addr() of a socket bound to addr: getsockname writes the bound
\* address's structure and its length back, sockname decodes it
SocknameOfBound ==
    /\ \E addr \in SocketAddrs, w \in Live :
         LET m == into_inner(addr)
             c == sockname("getsockname", w.fd, "OK", Raw(m.storage, m.len))
         IN last' = [CallArg("socket_addr of bound", addr, c.trace,
                             Raw(m.storage, m.len), c.res) EXCEPT !.fd = w.fd]
    /\ UNCHANGED <<windows, open, wrappers, lists, hosts, freed>>

InitAddr ==
    /\ windows = FALSE
    /\ open = {1}
    /\ wrappers = One(Wrapper("UdpSocket", 1))
    /\ last = NoCall
    /\ lists = <<>>
    /\ hosts = <<>>
    /\ freed = <<>>

NextAddr == SockaddrToAddr \/ SocknameOfBound

SpecAddr == InitAddr /\ [][NextAddr]_vars

----------------------------------------------------------------------------
(* Host resolution: lookup_host and the LookupHost iterator.              *)

\* a pointer to node i of list l; the null pointer
Ptr(l, i) == <<l, i>>
Null == <<0, 0>>

\* the head getaddrinfo stores in res
ListHead(l) == IF Len(lists[l]) > 0 THEN Ptr(l, 1) ELSE Null

\* (*p).ai_next
ai_next(p) == IF p[2] < Len(lists[p[1]]) THEN Ptr(p[1], p[2] + 1) ELSE Null

\* (*p).ai_addr and (*p).ai_addrlen
ai_node(p) == lists[p[1]][p[2]]

\* the nodes getaddrinfo may produce: an address of either family with its
\* structure's length, one of a family that is neither, and an IPv4 one
\* whose reported length is short
NodeKinds ==
    {Raw(into_inner(PeerV4).storage, SizeofSockaddrIn),
     Raw(into_inner(PeerV6).storage, SizeofSockaddrIn6),
     Raw(Storage(AF_UNIX, <<47, 116, 109, 112>>), SizeofSockaddrStorage),
     Raw(into_inner(PeerV4).storage, SizeofSockaddrIn - 1)}

AddrLists == UNION {[1..n -> NodeKinds] : n \in 0..MaxNodes}

LookupHost(original, cur) ==
    [state |-> "live", original |-> original, cur |-> cur, yielded |-> <<>>]

HostStep(ls, hs, fr, l) ==
    /\ lists' = ls
    /\ hosts' = hs
    /\ freed' = fr
    /\ last' = l
    /\ UNCHANGED <<windows, open, wrappers>>

lookup_host ==
    /\ Len(hosts) < MaxLookups
    /\ \E nul \in BOOLEAN :
         IF nul
         THEN \* CString::new(host) fails on an interior nul byte
              HostStep(lists, hosts, freed,
                       CallArg("lookup_host", NoVal, <<>>, NoRaw,
                               Err("InvalidInput")))
         ELSE \E gai \in {"OK", "EAI"} :
                LET t == <<Sys("getaddrinfo", <<>>, gai)>>
                    id == Len(lists) + 1
                IN IF gai # "OK"
                   THEN HostStep(lists, hosts, freed,
                                 CallArg("lookup_host", NoVal, t, NoRaw,
                                         Err("Resolver")))
                   ELSE \E nodes \in AddrLists :
                          LET res == IF Len(nodes) > 0 THEN Ptr(id, 1) ELSE Null
                          IN HostStep(Append(lists, nodes),
                                      Append(hosts, LookupHost(res, res)),
                                      freed,
                                      CallArg("lookup_host",
                                              [variant |-> "Host", host |-> id],
                                              t, NoRaw, Ok(Unit)))

Cursor(h, before, after) ==
    [variant |-> "Cursor", host |-> h, before |-> before, after |-> after]

\* next that gives the sequence up at the first element that fails
LookupHostNext_abort ==
    \E h \in 1..Len(hosts) :
      /\ hosts[h].state = "live"
      /\ LET cur == hosts[h].cur
         IN IF cur = Null
            THEN HostStep(lists, hosts, freed,
                          CallArg("LookupHost::next", Cursor(h, cur, cur), <<>>,
                                  NoRaw, Ok(NoVal)))
            ELSE LET node == ai_node(cur)
                     ret == sockaddr_to_addr(node.storage, node.len)
                     nxt == IF ret.tag = "Ok" THEN ai_next(cur) ELSE Null
                 IN IF ret.tag = "Panic"
                    THEN HostStep(lists, hosts, freed,
                                  CallArg("LookupHost::next", Cursor(h, cur, cur),
                                          <<>>, node, Panic))
                    ELSE HostStep(lists,
                                  [hosts EXCEPT ![h].cur = nxt,
                                      ![h].yielded = Append(@, ret)],
                                  freed,
                                  CallArg("LookupHost::next",
                                          Cursor(h, cur, nxt), <<>>,
                                          node, Ok(ret)))

\* Ok(NoVal) is None, Ok(item) is Some(item); a failed assertion inside
\* sockaddr_to_addr unwinds before the cursor is assigned
LookupHostNext ==
    \E h \in 1..Len(hosts) :
      /\ hosts[h].state = "live"
      /\ LET cur == hosts[h].cur
         IN IF cur = Null
            THEN HostStep(lists, hosts, freed,
                          CallArg("LookupHost::next", Cursor(h, cur, cur), <<>>,
                                  NoRaw, Ok(NoVal)))
            ELSE LET node == ai_node(cur)
                     ret == sockaddr_to_addr(node.storage, node.len)
                 IN IF ret.tag = "Panic"
                    THEN HostStep(lists, hosts, freed,
                                  CallArg("LookupHost::next", Cursor(h, cur, cur),
                                          <<>>, node, Panic))
                    ELSE HostStep(lists,
                                  [hosts EXCEPT ![h].cur = ai_next(cur),
                                      ![h].yielded = Append(@, ret)],
                                  freed,
                                  CallArg("LookupHost::next",
                                          Cursor(h, cur, ai_next(cur)), <<>>,
                                          node, Ok(ret)))

\* one freeaddrinfo call: the LookupHost that made it, the pointer passed
Freed(h, p) == [by |-> h, ptr |-> p]

\* a drop that releases the list from the cursor
LookupHostDrop_cur ==
    \E h \in 1..Len(hosts) :
      /\ hosts[h].state = "live"
      /\ HostStep(lists, [hosts EXCEPT ![h].state = "dropped"],
                  Append(freed, Freed(h, hosts[h].cur)),
                  CallArg("LookupHost::drop", Cursor(h, hosts[h].cur, hosts[h].cur),
                          <<Sys("freeaddrinfo", hosts[h].cur, "OK")>>,
                          NoRaw, Ok(Unit)))

LookupHostDrop ==
    \E h \in 1..Len(hosts) :
      /\ hosts[h].state = "live"
      /\ HostStep(lists, [hosts EXCEPT ![h].state = "dropped"],
                  Append(freed, Freed(h, hosts[h].original)),
                  CallArg("LookupHost::drop", Cursor(h, hosts[h].cur, hosts[h].cur),
                          <<Sys("freeaddrinfo", hosts[h].original, "OK")>>,
                          NoRaw, Ok(Unit)))

InitLookup ==
    /\ windows = FALSE
    /\ open = {}
    /\ wrappers = EmptyBag
    /\ last = NoCall
    /\ lists = <<>>
    /\ hosts = <<>>
    /\ freed = <<>>

NextLookup == lookup_host \/ LookupHostNext \/ LookupHostDrop

SpecLookup == InitLookup /\ [][NextLookup]_vars

----------------------------------------------------------------------------
(* Properties of the socket wrappers (Spec).                              *)

\* the wrappers that own handle fd, counted with their multiplicity
Owners(fd) == {w \in Live : w.fd = fd}

Constructors == {"TcpStream::connect", "TcpListener::bind", "UdpSocket::bind",
                 "TcpListener::accept"}
Duplicates == {"TcpStream::duplicate", "TcpListener::duplicate",
               "UdpSocket::duplicate"}
DecodingOps == {"TcpListener::accept", "TcpStream::peer_addr",
                "TcpStream::socket_addr", "TcpListener::socket_addr",
                "UdpSocket::socket_addr", "UdpSocket::recv_from"}

\* C1: every open handle is owned by exactly one wrapper and every live
\* wrapper owns one open handle; a successful duplicate returns a wrapper of
\* the same kind over a new handle, distinct from the original's, and after
\* a drop the dropped handle is closed while every other wrapper's handle is
\* still open.
C1_ExclusiveOwnership ==
    /\ \A fd \in open :
         /\ Cardinality(Owners(fd)) = 1
         /\ \A w \in Owners(fd) : CopiesIn(w, wrappers) = 1
    /\ \A w \in Live : w.fd \in open
    /\ (last.op \in Duplicates /\ last.res.tag = "Ok") =>
         /\ last.newfd # last.fd
         /\ {last.fd, last.newfd} \subseteq open
         /\ \E w \in Owners(last.newfd), v \in Owners(last.fd) : w.kind = v.kind
    /\ last.op = "drop" =>
         /\ last.fd \notin open
         /\ Owners(last.fd) = {}

\* a stream was duplicated: two wrappers, two open handles
C1_Witness ==
    /\ last.op = "TcpStream::duplicate"
    /\ last.res.tag = "Ok"
    /\ BagCardinality(wrappers) = 2
    /\ Cardinality(open) = 2

\* C10: the open handles are exactly the handles owned by live wrappers, and
\* a constructor that fails after its socket was created has closed that
\* socket as its last syscall and returned no wrapper over it.
C10_NoLeakOnFailure ==
    /\ open = {w.fd : w \in Live}
    /\ (last.op \in Constructors /\ last.res.tag # "Ok" /\ last.newfd # 0) =>
         /\ last.trace[Len(last.trace)] = Close(last.newfd)
         /\ last.newfd \notin open
         /\ Owners(last.newfd) = {}
    /\ (last.op \in Constructors /\ last.res.tag = "Ok") =>
         /\ last.newfd \in open
         /\ \A i \in 1..Len(last.trace) : last.trace[i].call # "close"

\* accept took a connection whose peer address did not decode
C10_Witness ==
    /\ last.op = "TcpListener::accept"
    /\ last.res.tag = "Err"
    /\ last.newfd # 0
    /\ last.raw.given

\* the syscalls of a call, the closing of a dropped socket left out
Issued == SelectSeq(last.trace, LAMBDA e : e.call # "close")
IssuedCalls == [i \in 1..Len(Issued) |-> Issued[i].call]

IsPrefix(p, q) == Len(p) <= Len(q) /\ \A i \in 1..Len(p) : p[i] = q[i]

\* the steps of bind, and what they hold whatever the build
BindStepsWellFormed(steps) ==
    /\ IsPrefix(IssuedCalls, steps)
    /\ Len(Issued) >= 1
    /\ \A i \in 1..(Len(Issued) - 1) : Issued[i].ret = "OK"
    /\ \A i \in 1..Len(Issued) :
         /\ Issued[i].call = "setsockopt" =>
              Issued[i].arg = <<last.newfd, SOL_SOCKET, SO_REUSEADDR,
                                ReuseAddrOn, SizeofCInt>>
         /\ Issued[i].call = "listen" =>
              Issued[i].arg = <<last.newfd, ListenBacklog>>
    /\ last.res.tag = "Ok" <=>
         (Len(Issued) = Len(steps) /\ Issued[Len(Issued)].ret = "OK")
    /\ last.res.tag # "Ok" =>
         last.res = last_os_error(Issued[Len(Issued)].ret)

\* C7 as stated: on every build bind issues socket, setsockopt(SO_REUSEADDR),
\* bind, listen(128) in this order and stops at the first failure.
C7_Original ==
    last.op = "TcpListener::bind" =>
        BindStepsWellFormed(<<"socket", "setsockopt", "bind", "listen">>)

\* C7 amended: the order is socket, setsockopt(SO_REUSEADDR = 1), bind,
\* listen(128) on a build that is not for Windows, and socket, bind,
\* listen(128) with no address-reuse step on a Windows build; a listener is
\* returned only if every step succeeded, and the first failing step's error
\* is returned with no later step issued.
C7_BindOrder ==
    last.op = "TcpListener::bind" =>
        BindStepsWellFormed(IF windows
                            THEN <<"socket", "bind", "listen">>
                            ELSE <<"socket", "setsockopt", "bind", "listen">>)

\* a listener was bound on a build that is not for Windows
C7_Witness ==
    /\ last.op = "TcpListener::bind"
    /\ last.res.tag = "Ok"
    /\ ~windows
    /\ Len(last.trace) = 4

\* the calls whose syscalls this file issues itself (accept and read go
\* through the Socket primitive)
CvtOps == {"TcpListener::bind", "UdpSocket::bind", "TcpStream::write",
           "TcpStream::shutdown", "TcpStream::peer_addr",
           "TcpStream::socket_addr", "TcpListener::socket_addr",
           "UdpSocket::socket_addr", "UdpSocket::recv_from",
           "UdpSocket::send_to", "setsockopt", "getsockopt"}

\* C5 as stated: no call returns an interrupted-syscall error.
C5_Original == last.res.kind # "Interrupted"

\* C5 amended: connect alone retries: its connect syscall is issued again
\* after every interrupted attempt and Interrupted is never returned; every
\* other syscall of this file is issued once, and an interrupted attempt is
\* returned as an Interrupted error; any other failure is returned at once.
C5_RetryOnlyInConnect ==
    /\ last.op = "TcpStream::connect" =>
         /\ last.res.kind # "Interrupted"
         /\ \A i \in 1..Len(Issued) :
              /\ Issued[i].ret = "EINTR" =>
                   /\ i < Len(Issued)
                   /\ Issued[i + 1].call = "connect"
                   /\ Issued[i + 1].arg = Issued[i].arg
              /\ Issued[i].ret = "ERR" =>
                   /\ i = Len(Issued)
                   /\ last.res = Err("Other")
              /\ (Issued[i].ret = "OK" /\ Issued[i].call = "connect") =>
                   /\ i = Len(Issued)
                   /\ last.res.tag = "Ok"
    /\ last.op \in CvtOps =>
         \A i \in 1..Len(Issued) :
           /\ \A j \in 1..Len(Issued) : Issued[j].call = Issued[i].call => j = i
           /\ Issued[i].ret # "OK" =>
                /\ i = Len(Issued)
                /\ last.res = last_os_error(Issued[i].ret)

\* connect was interrupted, issued again, and succeeded
C5_Witness ==
    /\ last.op = "TcpStream::connect"
    /\ last.res.tag = "Ok"
    /\ \E i \in 1..Len(last.trace) :
         last.trace[i].call = "connect" /\ last.trace[i].ret = "EINTR"

IpFamilies == {AF_INET, AF_INET6}
SizeofFamily(family) ==
    IF family = AF_INET THEN SizeofSockaddrIn ELSE SizeofSockaddrIn6

\* C4: when the OS writes back an address whose family is neither AF_INET
\* nor AF_INET6, whatever its length, accept, peer_addr, socket_addr and
\* recv_from fail with InvalidInput and produce no address (and accept no
\* stream).
C4_InvalidFamily ==
    (/\ last.op \in DecodingOps
     /\ last.raw.given
     /\ last.raw.storage.ss_family \notin IpFamilies) =>
        /\ last.res = Err("InvalidInput")
        /\ last.res.val = NoVal
        /\ last.op = "TcpListener::accept" => last.newfd \notin open

\* recv_from got a datagram from an address of another family
C4_Witness ==
    /\ last.op = "UdpSocket::recv_from"
    /\ last.raw.given
    /\ last.raw.storage.ss_family = AF_UNIX
    /\ last.res.kind = "InvalidInput"

\* C6 as stated: every call returns a success value or a typed error.
C6_Original == last.res.tag \in {"Ok", "Err"}

\* the two assertions of this file that fail
ShortAddress ==
    /\ last.op \in DecodingOps
    /\ last.raw.given
    /\ last.raw.storage.ss_family \in IpFamilies
    /\ last.raw.len < SizeofFamily(last.raw.storage.ss_family)
OptionLengthMismatch ==
    /\ last.op = "getsockopt"
    /\ last.trace[1].ret = "OK"
    /\ last.arg.len # SizeofTimeval

\* C6 amended: a call panics exactly when the OS reports, for an address of
\* family AF_INET or AF_INET6, a length smaller than that family's structure,
\* or, for getsockopt, an option length different from the size of the
\* requested type; every other call returns a success value or a typed error.
C6_PanicsOnlyOnAssertion ==
    /\ last.res.tag \in {"Ok", "Err", "Panic"}
    /\ last.res.tag = "Panic" <=> (ShortAddress \/ OptionLengthMismatch)

\* recv_from got an IPv4 sender whose reported length is short
C6_Witness ==
    /\ last.op = "UdpSocket::recv_from"
    /\ ShortAddress
    /\ last.res = Panic

----------------------------------------------------------------------------
(* Properties of the address decoding (SpecAddr).                         *)

\* C8: a socket address of either variant, marshalled to its raw structure
\* with its family's structure length and decoded again, comes back as the
\* same variant with the same address and port (and, for IPv6, the same flow
\* information and scope).
C8_RoundTrip ==
    last.op = "socket_addr of bound" =>
        /\ last.res.tag = "Ok"
        /\ last.res.val.variant = last.arg.variant
        /\ last.res.val.ip = last.arg.ip
        /\ last.res.val.port = last.arg.port
        /\ last.res.val = last.arg

\* an IPv6 address with a port whose two bytes differ went through
C8_Witness ==
    /\ last.op = "socket_addr of bound"
    /\ last.arg.variant = "V6"
    /\ last.arg.port = 8080
    /\ last.res.tag = "Ok"

\* C9 as stated: an address is produced only when the length equals the
\* size of the structure of the detected family.
C9_Original ==
    (last.op = "sockaddr_to_addr" /\ last.res.tag = "Ok") =>
        /\ last.raw.storage.ss_family \in IpFamilies
        /\ last.raw.len = SizeofFamily(last.raw.storage.ss_family)

\* C9 amended: the length is checked before the storage is read as a
\* structure, and it must be at least (not exactly) the size of the detected
\* family's structure: with a smaller length no address is produced (the
\* assertion fails), with that size or a larger one the address of that
\* family's variant is.
C9_LengthAtLeast ==
    last.op = "sockaddr_to_addr" =>
        LET family == last.raw.storage.ss_family
        IN /\ last.res.tag = "Ok" =>
                /\ family \in IpFamilies
                /\ last.raw.len >= SizeofFamily(family)
                /\ last.res.val.variant = IF family = AF_INET THEN "V4" ELSE "V6"
           /\ (family \in IpFamilies /\ last.raw.len < SizeofFamily(family)) =>
                /\ last.res = Panic
                /\ last.res.val = NoVal
           /\ (family \in IpFamilies /\ last.raw.len >= SizeofFamily(family)) =>
                last.res.tag = "Ok"

\* an IPv6 storage came with the length of the IPv4 structure
C9_Witness ==
    /\ last.op = "sockaddr_to_addr"
    /\ last.raw.storage.ss_family = AF_INET6
    /\ last.raw.len = SizeofSockaddrIn
    /\ last.res = Panic

----------------------------------------------------------------------------
(* Properties of host resolution (SpecLookup).                            *)

HostIds == 1..Len(hosts)
FreedBy(h) == SelectSeq(freed, LAMBDA f : f.by = h)

\* C2: the list of every LookupHost is released by exactly one freeaddrinfo
\* call, made when the LookupHost is dropped and passed the head getaddrinfo
\* returned, however far the cursor went; before the drop nothing is
\* released, and a lookup_host that fails releases nothing and owns no list.
C2_FreedOnceOnDrop ==
    /\ Len(lists) = Len(hosts)
    /\ \A i \in 1..Len(freed) : freed[i].by \in HostIds
    /\ \A h \in HostIds :
         /\ hosts[h].original = ListHead(h)
         /\ hosts[h].state = "live" => FreedBy(h) = <<>>
         /\ hosts[h].state = "dropped" =>
              FreedBy(h) = <<Freed(h, ListHead(h))>>
    /\ (last.op = "lookup_host" /\ last.res.tag # "Ok") =>
         \A i \in 1..Len(last.trace) : last.trace[i].call # "freeaddrinfo"
    /\ last.op = "LookupHost::drop" =>
         /\ Len(last.trace) = 1
         /\ last.trace[1].arg = ListHead(last.arg.host)

\* a LookupHost was dropped after its cursor had moved off the head
C2_Witness ==
    \E h \in HostIds :
      /\ hosts[h].state = "dropped"
      /\ hosts[h].cur # hosts[h].original
      /\ Len(hosts[h].yielded) >= 1
      /\ Len(FreedBy(h)) = 1

\* the decoding of node i of list l
Decoded(l, i) == sockaddr_to_addr(lists[l][i].storage, lists[l][i].len)

\* the position of a cursor in a list of n nodes
Position(p, n) == IF p = Null THEN n + 1 ELSE p[2]

\* C3 as stated: on a list that is not exhausted next() yields an item (an
\* address or an Err) and moves the cursor to the following node.
C3_Original ==
    (last.op = "LookupHost::next" /\ last.arg.before # Null) =>
        /\ last.res.tag = "Ok"
        /\ last.res.val # NoVal
        /\ last.arg.after = ai_next(last.arg.before)

\* C3 amended: the items yielded so far are the decodings of the nodes before
\* the cursor, in list order, the cursor never moving back; past the last
\* node next() returns None and stays there; a node of a family that is
\* neither AF_INET nor AF_INET6 is yielded as Err(InvalidInput) and the
\* cursor still advances. But on a node of family AF_INET or AF_INET6 whose
\* reported length is smaller than that family's structure next() panics,
\* yields nothing and leaves the cursor on that node, so the nodes after it
\* are not yielded: n items are yielded only from a list with no such node.
C3_SequenceUpToShortNode ==
    /\ \A h \in HostIds :
         LET n == Len(lists[h])
             k == Position(hosts[h].cur, n)
         IN /\ hosts[h].cur # Null =>
                 (hosts[h].cur[1] = h /\ hosts[h].cur[2] \in 1..n)
            /\ Len(hosts[h].yielded) = k - 1
            /\ \A i \in 1..(k - 1) :
                 /\ hosts[h].yielded[i] = Decoded(h, i)
                 /\ hosts[h].yielded[i].tag \in {"Ok", "Err"}
                 /\ hosts[h].yielded[i].tag = "Err" =>
                      /\ hosts[h].yielded[i].kind = "InvalidInput"
                      /\ lists[h][i].storage.ss_family \notin IpFamilies
    /\ last.op = "LookupHost::next" =>
         LET b == last.arg.before
         IN /\ hosts[last.arg.host].cur = last.arg.after
            /\ IF b = Null
               THEN last.res = Ok(NoVal) /\ last.arg.after = Null
               ELSE IF Decoded(b[1], b[2]).tag = "Panic"
               THEN last.res = Panic /\ last.arg.after = b
               ELSE /\ last.res = Ok(Decoded(b[1], b[2]))
                    /\ last.arg.after = ai_next(b)

\* an element failed to decode and the element after it was still yielded
C3_Witness ==
    \E h \in HostIds :
      /\ Len(hosts[h].yielded) = 2
      /\ hosts[h].yielded[1].tag = "Err"
      /\ hosts[h].yielded[2].tag = "Ok"
      /\ hosts[h].cur = Null

=============================================================================
